---- MODULE Spec2Model ----
(***************************************************************************)
(* Persistence and change tracking of a mongoid document (Base):           *)
(* IsPersisted, IsChanged, Changes, Was, Save, saveByUpdate, saveByInsert  *)
(* of document_persistable.go, run by the threads of control that share    *)
(* one document instance, against a store collection.                      *)
(***************************************************************************)
EXTENDS Integers, FiniteSets, Sequences, TLC

\* ------------------------------------------------------------------ bounds
\* Object ids are 0..MaxId, 0 being the zero ObjectID.
MaxId == 2
\* Scalar field values are 1..MaxVal.
MaxVal == 2

\* ---------------------------------------------------------------- constants
\* ZeroObjectID(): the all-zero ObjectID.
ZeroObjectID == 0
\* The 'nil' value side of a diff entry (an unset or missing value).
Null == -1
\* A struct field that holds nothing and is left out of the encoding.
Unset == -2

\* Threads of control that share the document instance.
Threads == {1, 2}
\* The document's field paths: the root _id and two data fields.
DataPaths == {"a", "b"}
Paths == {"_id"} \cup DataPaths

ObjectIDs == 0..MaxId
StoreIds == 1..MaxId
DataSlots == {Unset, Null} \cup (1..MaxVal)

\* Values a field path accepts.
SlotValues(p) == IF p = "_id" THEN ObjectIDs ELSE DataSlots

\* A newly constructed document: all default values.
DefaultFields == [p \in Paths |-> IF p = "_id" THEN ZeroObjectID ELSE Unset]

\* The BsonDocument without entries.
EmptyDoc == [p \in {} |-> Null]

VARIABLES
    fields,         \* the document's current field values, path -> slot
    persisted,      \* d.persisted
    previousValue,  \* d.previousValue: the BsonDocument of the last sync
    stored,         \* the _id values the collection holds
    crashed,        \* "no", or the call site that ended the process
    pc,             \* per thread: its position in Save / saveByInsert
    atCall,         \* per thread: the document as Save found it
    insertBson,     \* per thread: saveByInsert's outgoing document
    op,             \* per thread: the store operation this Save issued
    nOps,           \* per thread: how many store operations this Save issued
    res,            \* per thread: res.InsertedID of InsertOne
    err,            \* per thread: err of InsertOne ("nil" or "err")
    idErr,          \* per thread: err of SetField("_id", id)
    ret,            \* per thread: what Save returned ("none" before it does)
    ctxHeld,        \* per thread: the timeout context acquired and not cancelled
    idWrites,       \* how often saveByInsert has written the _id field
    acked,          \* how many INSERTs the store has acknowledged
    failures,       \* how many INSERTs the store has failed
    loaded,         \* the document was loaded from the store
    touched,        \* a field was set or Save was called since construction
    lastRead        \* the last IsPersisted/IsChanged/Changes call and its
                    \* result, "none" once a field is set or Save is called

doc == <<fields, persisted, previousValue>>
locals == <<atCall, insertBson, op, nOps, res, err, idErr, ret, ctxHeld>>
history == <<idWrites, acked, failures>>
notes == <<loaded, touched, lastRead>>
vars == <<fields, persisted, previousValue, stored, crashed, pc, atCall,
          insertBson, op, nOps, res, err, idErr, ret, ctxHeld, idWrites,
          acked, failures, loaded, touched, lastRead>>

\* ------------------------------------------------------------ pure helpers

\* d.ToBson(): the encoding of the field values; a field that holds nothing
\* has no entry.
ToBson(f) == [p \in {q \in Paths : f[q] # Unset} |-> f[p]]

\* The value of a BsonDocument at a path, nil when the path is missing.
BsonGet(b, p) == IF p \in DOMAIN b THEN b[p] ELSE Null

\* makeBsonDocumentDiff(previous, current): an entry for every path whose
\* value differs, holding the new value, nil when the new side lacks it.
makeBsonDocumentDiff(previous, current) ==
    [p \in {q \in (DOMAIN previous) \cup (DOMAIN current) :
                BsonGet(previous, q) # BsonGet(current, q)}
        |-> BsonGet(current, p)]

\* Changes() with the two sides of the diff exchanged.
ChangesOf_Swapped(f, prev) == makeBsonDocumentDiff(ToBson(f), prev)

\* Changes() that diffs against an empty document, not d.previousValue.
ChangesOf_NoPrevious(f, prev) ==
    makeBsonDocumentDiff([p \in {} |-> Null], ToBson(f))

\* d.Changes() on a document with the given fields and previous value.
ChangesOf(f, prev) == makeBsonDocumentDiff(prev, ToBson(f))

\* d.Changes()
Changes == ChangesOf(fields, previousValue)

\* IsChanged() with len(d.Changes()) >= 0 as its test.
IsChanged_AtLeastZero == Cardinality(DOMAIN Changes) >= 0

\* d.IsChanged()
IsChanged == Cardinality(DOMAIN Changes) > 0

\* d.IsPersisted()
IsPersisted == persisted

\* The document as a Save call finds it.
Snapshot == [fields |-> fields, persisted |-> persisted,
             previousValue |-> previousValue]

NoCall == [fields |-> DefaultFields, persisted |-> FALSE,
           previousValue |-> ToBson(DefaultFields)]

\* No read of the document since it last changed.
NoRead == [call |-> "none", diff |-> EmptyDoc, flag |-> FALSE]

\* ------------------------------------------------------------------- Init

\* Either a newly constructed document (default values, not persisted) or
\* one loaded from the store (persisted, previous value = loaded values).
Init ==
    /\ \/ /\ fields = DefaultFields
          /\ persisted = FALSE
          /\ loaded = FALSE
          /\ stored \in {s \in SUBSET StoreIds : s # StoreIds}
       \/ /\ fields \in {f \in [Paths -> ObjectIDs \cup DataSlots] :
                            /\ f["_id"] \in StoreIds
                            /\ \A p \in DataPaths : f[p] \in DataSlots}
          /\ persisted = TRUE
          /\ loaded = TRUE
          /\ stored = {fields["_id"]}
    /\ previousValue = ToBson(fields)
    /\ crashed = "no"
    /\ pc = [t \in Threads |-> "idle"]
    /\ atCall = [t \in Threads |-> NoCall]
    /\ insertBson = [t \in Threads |-> EmptyDoc]
    /\ op = [t \in Threads |-> "none"]
    /\ nOps = [t \in Threads |-> 0]
    /\ res = [t \in Threads |-> ZeroObjectID]
    /\ err = [t \in Threads |-> "nil"]
    /\ idErr = [t \in Threads |-> "nil"]
    /\ ret = [t \in Threads |-> "none"]
    /\ ctxHeld = [t \in Threads |-> FALSE]
    /\ idWrites = 0
    /\ acked = 0
    /\ failures = 0
    /\ touched = FALSE
    /\ lastRead = NoRead

\* ---------------------------------------------------------------- actions

\* No Save is under way on any thread.
Quiet == \A t \in Threads : pc[t] = "idle"

\* d.SetField(path, value) on the field values f.
SetField(f, p, v) == [f EXCEPT ![p] = v]

\* log.Fatal / log.Panic / log.Panicf at a call site: the process ends there.
Crash(site) ==
    /\ crashed' = site
    /\ UNCHANGED <<doc, stored, pc, locals, history,
                   notes>>

\* The application sets a field of the document.
Mutate(p, v) ==
    /\ crashed = "no"
    /\ fields[p] # v
    /\ fields' = SetField(fields, p, v)
    /\ touched' = TRUE
    /\ lastRead' = NoRead
    /\ UNCHANGED <<persisted, previousValue, stored, crashed, pc, locals,
                   history, loaded>>

\* A caller reads IsPersisted(): the flag, nothing of the document changes.
IsPersistedCall ==
    /\ crashed = "no"
    /\ lastRead' = [call |-> "IsPersisted", diff |-> EmptyDoc,
                    flag |-> IsPersisted]
    /\ UNCHANGED <<doc, stored, crashed, pc, locals, history, loaded,
                   touched>>

\* A caller reads IsChanged(): len(d.Changes()) > 0.
IsChangedCall ==
    /\ crashed = "no"
    /\ lastRead' = [call |-> "IsChanged", diff |-> EmptyDoc,
                    flag |-> IsChanged]
    /\ UNCHANGED <<doc, stored, crashed, pc, locals, history, loaded,
                   touched>>

\* Changes() that keeps the current encoding as the previous value.
ChangesCall_Refreshing ==
    /\ crashed = "no"
    /\ lastRead' = [call |-> "Changes", diff |-> Changes, flag |-> FALSE]
    /\ previousValue' = ToBson(fields)
    /\ UNCHANGED <<fields, persisted, stored, crashed, pc, locals, history,
                   loaded, touched>>

\* A caller reads Changes(): the diff of d.previousValue and d.ToBson().
ChangesCall ==
    /\ crashed = "no"
    /\ lastRead' = [call |-> "Changes", diff |-> Changes, flag |-> FALSE]
    /\ UNCHANGED <<doc, stored, crashed, pc, locals, history, loaded,
                   touched>>

\* Was(fieldPath): log.Panicf.
Was(t, p) ==
    /\ crashed = "no"
    /\ pc[t] = "idle"
    /\ Crash("Was")

\* Save() with the test of IsPersisted() inverted.
Save_Inverted(t) ==
    /\ crashed = "no"
    /\ pc[t] = "idle"
    /\ pc' = [pc EXCEPT ![t] = IF IsPersisted THEN "saveByInsert"
                                               ELSE "saveByUpdate"]
    /\ atCall' = [atCall EXCEPT ![t] = Snapshot]
    /\ insertBson' = [insertBson EXCEPT ![t] = EmptyDoc]
    /\ op' = [op EXCEPT ![t] = "none"]
    /\ nOps' = [nOps EXCEPT ![t] = 0]
    /\ res' = [res EXCEPT ![t] = ZeroObjectID]
    /\ err' = [err EXCEPT ![t] = "nil"]
    /\ idErr' = [idErr EXCEPT ![t] = "nil"]
    /\ ret' = [ret EXCEPT ![t] = "none"]
    /\ touched' = TRUE
    /\ lastRead' = NoRead
    /\ UNCHANGED <<doc, stored, crashed, ctxHeld, history, loaded>>

\* Save(): reads IsPersisted() and goes to saveByUpdate or saveByInsert.
Save(t) ==
    /\ crashed = "no"
    /\ pc[t] = "idle"
    /\ pc' = [pc EXCEPT ![t] = IF IsPersisted THEN "saveByUpdate"
                                               ELSE "saveByInsert"]
    /\ atCall' = [atCall EXCEPT ![t] = Snapshot]
    /\ insertBson' = [insertBson EXCEPT ![t] = EmptyDoc]
    /\ op' = [op EXCEPT ![t] = "none"]
    /\ nOps' = [nOps EXCEPT ![t] = 0]
    /\ res' = [res EXCEPT ![t] = ZeroObjectID]
    /\ err' = [err EXCEPT ![t] = "nil"]
    /\ idErr' = [idErr EXCEPT ![t] = "nil"]
    /\ ret' = [ret EXCEPT ![t] = "none"]
    /\ touched' = TRUE
    /\ lastRead' = NoRead
    /\ UNCHANGED <<doc, stored, crashed, ctxHeld, history, loaded>>

\* saveByUpdate(): log.Fatal("NYI Save() - PERSISTED").
saveByUpdate(t) ==
    /\ crashed = "no"
    /\ pc[t] = "saveByUpdate"
    /\ Crash("saveByUpdate")

\* The outgoing document with the zero ObjectID left in it.
KeepZeroId(b) == b

\* The outgoing document with the root _id dropped whatever it holds.
DropAnyId(b) == [p \in (DOMAIN b) \ {"_id"} |-> b[p]]

\* The outgoing document of an insert: a root _id holding the zero ObjectID
\* is dropped.
DropZeroId(b) ==
    IF "_id" \in DOMAIN b /\ b["_id"] = ZeroObjectID
    THEN [p \in (DOMAIN b) \ {"_id"} |-> b[p]]
    ELSE b

\* saveByInsert() that sets d.persisted before it calls InsertOne.
saveByInsert_Encode_PersistsEarly(t) ==
    /\ crashed = "no"
    /\ pc[t] = "saveByInsert"
    /\ ctxHeld' = [ctxHeld EXCEPT ![t] = TRUE]
    /\ insertBson' = [insertBson EXCEPT ![t] = DropZeroId(ToBson(fields))]
    /\ persisted' = TRUE
    /\ pc' = [pc EXCEPT ![t] = "InsertOne"]
    /\ UNCHANGED <<fields, previousValue, stored, crashed, atCall, op, nOps,
                   res, err, idErr, ret, history, notes>>

\* saveByInsert(), up to the InsertOne call: the timeout context is taken
\* (its cancel function is discarded) and the outgoing document is built.
saveByInsert_Encode(t) ==
    /\ crashed = "no"
    /\ pc[t] = "saveByInsert"
    /\ ctxHeld' = [ctxHeld EXCEPT ![t] = TRUE]
    /\ insertBson' = [insertBson EXCEPT ![t] = DropZeroId(ToBson(fields))]
    /\ pc' = [pc EXCEPT ![t] = "InsertOne"]
    /\ UNCHANGED <<doc, stored, crashed, atCall, op, nOps, res, err, idErr,
                   ret, history,
                   notes>>

\* The identities the store can acknowledge an insert of b with: b's own
\* _id unless the collection holds it already, a new one when b has none.
InsertedIDs(b) ==
    IF "_id" \in DOMAIN b THEN {b["_id"]} \ stored ELSE StoreIds \ stored

\* InsertOne acknowledged, with d.persisted set at once, before the
\* identity is written back.
InsertOne_Ok_PersistsFirst(t) ==
    /\ crashed = "no"
    /\ pc[t] = "InsertOne"
    /\ \E id \in InsertedIDs(insertBson[t]) :
          /\ stored' = stored \cup {id}
          /\ res' = [res EXCEPT ![t] = id]
    /\ err' = [err EXCEPT ![t] = "nil"]
    /\ op' = [op EXCEPT ![t] = "INSERT"]
    /\ nOps' = [nOps EXCEPT ![t] = @ + 1]
    /\ acked' = acked + 1
    /\ persisted' = TRUE
    /\ pc' = [pc EXCEPT ![t] = "InsertOne_err"]
    /\ UNCHANGED <<fields, previousValue, crashed, atCall, insertBson, idErr,
                   ret, ctxHeld, idWrites, failures, notes>>

\* collection.InsertOne(ctx, insertBson), acknowledged.
InsertOne_Ok(t) ==
    /\ crashed = "no"
    /\ pc[t] = "InsertOne"
    /\ \E id \in InsertedIDs(insertBson[t]) :
          /\ stored' = stored \cup {id}
          /\ res' = [res EXCEPT ![t] = id]
    /\ err' = [err EXCEPT ![t] = "nil"]
    /\ op' = [op EXCEPT ![t] = "INSERT"]
    /\ nOps' = [nOps EXCEPT ![t] = @ + 1]
    /\ acked' = acked + 1
    /\ pc' = [pc EXCEPT ![t] = "InsertOne_err"]
    /\ UNCHANGED <<doc, crashed, atCall, insertBson, idErr, ret, ctxHeld,
                   idWrites, failures,
                   notes>>

\* InsertOne failed, with the error dropped: err stays nil.
InsertOne_Err_Swallowed(t) ==
    /\ crashed = "no"
    /\ pc[t] = "InsertOne"
    /\ op' = [op EXCEPT ![t] = "INSERT"]
    /\ nOps' = [nOps EXCEPT ![t] = @ + 1]
    /\ failures' = failures + 1
    /\ pc' = [pc EXCEPT ![t] = "InsertOne_err"]
    /\ UNCHANGED <<doc, stored, crashed, atCall, insertBson, res, err, idErr,
                   ret, ctxHeld, idWrites, acked, notes>>

\* collection.InsertOne(ctx, insertBson), failed (network, timeout,
\* duplicate key).
InsertOne_Err(t) ==
    /\ crashed = "no"
    /\ pc[t] = "InsertOne"
    /\ err' = [err EXCEPT ![t] = "err"]
    /\ op' = [op EXCEPT ![t] = "INSERT"]
    /\ nOps' = [nOps EXCEPT ![t] = @ + 1]
    /\ failures' = failures + 1
    /\ pc' = [pc EXCEPT ![t] = "InsertOne_err"]
    /\ UNCHANGED <<doc, stored, crashed, atCall, insertBson, res, idErr,
                   ret, ctxHeld, idWrites, acked,
                   notes>>

\* if err != nil { log.Fatal(err) }
saveByInsert_Fatal(t) ==
    /\ crashed = "no"
    /\ pc[t] = "InsertOne_err"
    /\ err[t] = "err"
    /\ Crash("InsertOne")

\* The identity written back only into an _id that is still zero.
saveByInsert_SetId_OnlyIfZero(t) ==
    /\ crashed = "no"
    /\ pc[t] = "InsertOne_err"
    /\ err[t] = "nil"
    /\ fields' = IF fields["_id"] = ZeroObjectID
                 THEN SetField(fields, "_id", res[t])
                 ELSE fields
    /\ idWrites' = idWrites + 1
    /\ pc' = [pc EXCEPT ![t] = "persisted"]
    /\ UNCHANGED <<persisted, previousValue, stored, crashed, locals, acked,
                   failures, notes>>

\* d.SetField("_id", res.InsertedID) succeeds.
saveByInsert_SetId(t) ==
    /\ crashed = "no"
    /\ pc[t] = "InsertOne_err"
    /\ err[t] = "nil"
    /\ fields' = SetField(fields, "_id", res[t])
    /\ idWrites' = idWrites + 1
    /\ pc' = [pc EXCEPT ![t] = "persisted"]
    /\ UNCHANGED <<persisted, previousValue, stored, crashed, locals, acked,
                   failures,
                   notes>>

\* d.SetField("_id", res.InsertedID) fails: the field accessor rejects the
\* value or the path.
saveByInsert_SetIdErr(t) ==
    /\ crashed = "no"
    /\ pc[t] = "InsertOne_err"
    /\ err[t] = "nil"
    /\ idErr' = [idErr EXCEPT ![t] = "err"]
    /\ pc' = [pc EXCEPT ![t] = "SetField_err"]
    /\ UNCHANGED <<doc, stored, crashed, atCall, insertBson, op, nOps, res,
                   err, ret, ctxHeld, history,
                   notes>>

\* if err := d.SetField(...); err != nil { log.Error(err); log.Panic(err) }
saveByInsert_Panic(t) ==
    /\ crashed = "no"
    /\ pc[t] = "SetField_err"
    /\ Crash("SetField")

\* d.persisted = true
saveByInsert_Persisted(t) ==
    /\ crashed = "no"
    /\ pc[t] = "persisted"
    /\ persisted' = TRUE
    /\ pc' = [pc EXCEPT ![t] = "refresh"]
    /\ UNCHANGED <<fields, previousValue, stored, crashed, locals, history,
                   notes>>

\* return nil without d.refreshPreviousValueBSON().
saveByInsert_NoRefresh(t) ==
    /\ crashed = "no"
    /\ pc[t] = "refresh"
    /\ ret' = [ret EXCEPT ![t] = "nil"]
    /\ pc' = [pc EXCEPT ![t] = "returned"]
    /\ UNCHANGED <<doc, stored, crashed, atCall, insertBson, op, nOps, res,
                   err, idErr, ctxHeld, history,
                   notes>>

\* d.refreshPreviousValueBSON(); return nil
saveByInsert_Refresh(t) ==
    /\ crashed = "no"
    /\ pc[t] = "refresh"
    /\ previousValue' = ToBson(fields)
    /\ ret' = [ret EXCEPT ![t] = "nil"]
    /\ pc' = [pc EXCEPT ![t] = "returned"]
    /\ UNCHANGED <<fields, persisted, stored, crashed, atCall, insertBson,
                   op, nOps, res, err, idErr, ctxHeld, history,
                   notes>>

\* The caller of Save goes on after Save returned.
Resume(t) ==
    /\ crashed = "no"
    /\ pc[t] = "returned"
    /\ pc' = [pc EXCEPT ![t] = "idle"]
    /\ atCall' = [atCall EXCEPT ![t] = NoCall]
    /\ insertBson' = [insertBson EXCEPT ![t] = EmptyDoc]
    /\ op' = [op EXCEPT ![t] = "none"]
    /\ nOps' = [nOps EXCEPT ![t] = 0]
    /\ res' = [res EXCEPT ![t] = ZeroObjectID]
    /\ err' = [err EXCEPT ![t] = "nil"]
    /\ idErr' = [idErr EXCEPT ![t] = "nil"]
    /\ ret' = [ret EXCEPT ![t] = "none"]
    /\ UNCHANGED <<doc, stored, crashed, ctxHeld, history,
                   notes>>

\* The 5 s deadline of the context of thread t's insert passes: its timer
\* releases the context, which nothing cancelled before.
ctxDeadline(t) ==
    /\ crashed = "no"
    /\ ctxHeld[t]
    /\ ctxHeld' = [ctxHeld EXCEPT ![t] = FALSE]
    /\ UNCHANGED <<doc, stored, crashed, pc, atCall, insertBson, op, nOps,
                   res, err, idErr, ret, history, notes>>

\* A step of a Save that is under way.
SaveStep(t) ==
    \/ saveByUpdate(t)
    \/ saveByInsert_Encode(t)
    \/ InsertOne_Ok(t)
    \/ InsertOne_Err(t)
    \/ saveByInsert_Fatal(t)
    \/ saveByInsert_SetId(t)
    \/ saveByInsert_SetIdErr(t)
    \/ saveByInsert_Panic(t)
    \/ saveByInsert_Persisted(t)
    \/ saveByInsert_Refresh(t)
    \/ Resume(t)

\* The callers serialize their calls on the document: a call starts, and
\* the application sets a field, only while no Save is under way.
Next ==
    \/ \E t \in Threads : Quiet /\ Save(t)
    \/ \E t \in Threads : \E p \in Paths : Quiet /\ Was(t, p)
    \/ \E p \in Paths : \E v \in SlotValues(p) : Quiet /\ Mutate(p, v)
    \/ Quiet /\ IsPersistedCall
    \/ Quiet /\ IsChangedCall
    \/ Quiet /\ ChangesCall
    \/ \E t \in Threads : SaveStep(t)
    \/ \E t \in Threads : ctxDeadline(t)

Spec == Init /\ [][Next]_vars

\* The callers do not serialize their Save calls: a thread calls Save
\* whatever the other one is doing. The application sets fields and reads
\* the document between the calls.
NextConc ==
    \/ \E t \in Threads : Save(t)
    \/ \E t \in Threads : \E p \in Paths : Quiet /\ Was(t, p)
    \/ \E p \in Paths : \E v \in SlotValues(p) : Quiet /\ Mutate(p, v)
    \/ Quiet /\ IsPersistedCall
    \/ Quiet /\ IsChangedCall
    \/ Quiet /\ ChangesCall
    \/ \E t \in Threads : SaveStep(t)
    \/ \E t \in Threads : ctxDeadline(t)

SpecConc == Init /\ [][NextConc]_vars

\* ----------------------------------------------------------------- claims

\* Thread t is in a Save call (under way, returned, or ended by a crash).
InCall(t) == pc[t] # "idle"

\* The Save call of thread t is over: it returned, or the process ended.
Over(t) == InCall(t) /\ (pc[t] = "returned" \/ crashed # "no")

\* d.Changes() as the Save call of thread t found it.
ChangesAtCall(t) == ChangesOf(atCall[t].fields, atCall[t].previousValue)

\* The store failed the INSERT of thread t's Save.
InsertFailed(t) == InCall(t) /\ op[t] = "INSERT" /\ err[t] = "err"

\* C1: when the store's INSERT fails, Save returns that failure as an error
\* value, and afterwards IsPersisted() is false and Changes() is the diff
\* the document had before the call.
C1_InsertFailureReturned ==
    \A t \in Threads :
        (InsertFailed(t) /\ Over(t)) =>
            /\ ret[t] = "error"
            /\ crashed = "no"
            /\ ~IsPersisted
            /\ Changes = ChangesAtCall(t)

\* C2: when Save on an unpersisted document returns after an INSERT the
\* store acknowledged with identity X, the _id field is X, IsPersisted() is
\* true and IsChanged() is false.
C2_InsertSuccess ==
    \A t \in Threads :
        (pc[t] = "returned" /\ ~atCall[t].persisted) =>
            /\ op[t] = "INSERT" /\ err[t] = "nil"
            /\ ret[t] = "nil"
            /\ fields["_id"] = res[t]
            /\ IsPersisted
            /\ ~IsChanged

\* A Save that inserted a document with changed fields and a zero _id has
\* returned.
C2_Witness ==
    \E t \in Threads :
        /\ pc[t] = "returned"
        /\ ~atCall[t].persisted
        /\ atCall[t].fields["_id"] = ZeroObjectID
        /\ Cardinality(DOMAIN ChangesAtCall(t)) > 0
        /\ res[t] # ZeroObjectID

\* C3: Save takes its path from the persisted flag it read: with
\* persisted = false it is on the insert path, issues an INSERT and never an
\* UPDATE; with persisted = true it is on the update path and issues an
\* UPDATE or nothing, never an INSERT.
C3_DispatchOnPersisted ==
    \A t \in Threads :
        InCall(t) =>
            /\ ~atCall[t].persisted =>
                  /\ pc[t] # "saveByUpdate"
                  /\ op[t] \in {"none", "INSERT"}
                  /\ (op[t] = "none") = (pc[t] \in {"saveByInsert", "InsertOne"})
            /\ atCall[t].persisted =>
                  /\ pc[t] = "saveByUpdate"
                  /\ op[t] \in {"none", "UPDATE"}

\* A Save that read persisted = false has issued its INSERT.
C3_Witness ==
    \E t \in Threads :
        InCall(t) /\ ~atCall[t].persisted /\ op[t] = "INSERT" /\ nOps[t] = 1

\* C4: Save on a persisted document in which exactly one path differs from
\* the previous value issues an UPDATE (of that path only), returns, and
\* Changes() is then empty.
C4_UpdateOnlyChanged ==
    \A t \in Threads :
        (Over(t) /\ atCall[t].persisted
                 /\ Cardinality(DOMAIN ChangesAtCall(t)) = 1) =>
            /\ op[t] = "UPDATE"
            /\ ret[t] = "nil"
            /\ Changes = EmptyDoc

\* C5: Save on a persisted document whose diff is empty returns success,
\* issues no store operation and leaves the persisted flag, the fields and
\* the previous value as they were.
C5_EmptyUpdateNoOp ==
    \A t \in Threads :
        (Over(t) /\ atCall[t].persisted /\ ChangesAtCall(t) = EmptyDoc) =>
            /\ ret[t] = "nil"
            /\ nOps[t] = 0
            /\ Snapshot = atCall[t]

\* C6: no Save on a persisted document and no Was(path) ends the process.
C6_NoCrashOnUpdateOrWas == crashed \notin {"saveByUpdate", "Was"}

\* C7: when the store accepted the INSERT and writing the identity into the
\* _id field fails, Save returns an error and persisted is not set.
C7_WritebackFailureReturned ==
    \A t \in Threads :
        (Over(t) /\ idErr[t] = "err") =>
            /\ ret[t] = "error"
            /\ ~persisted

\* C8: the document handed to InsertOne has no _id exactly when the
\* document's _id holds the zero ObjectID; otherwise it carries that _id, and
\* every other path of the encoding is in it with its value.
C8_OutgoingDocument ==
    \A t \in Threads :
        (InCall(t) /\ op[t] = "INSERT") =>
            LET enc == ToBson(atCall[t].fields)
                out == insertBson[t]
            IN  /\ ("_id" \notin DOMAIN out) = (enc["_id"] = ZeroObjectID)
                /\ (DOMAIN out) \cup {"_id"} = DOMAIN enc
                /\ \A p \in DOMAIN out : out[p] = enc[p]

\* An INSERT was issued for a document with a zero _id and a data field set.
C8_Witness ==
    \E t \in Threads :
        /\ InCall(t) /\ op[t] = "INSERT"
        /\ atCall[t].fields["_id"] = ZeroObjectID
        /\ "_id" \notin DOMAIN insertBson[t]
        /\ "a" \in DOMAIN insertBson[t]

\* A step of Save, as opposed to the application setting a field.
CoreStep == \E t \in Threads : Save(t) \/ SaveStep(t)

\* C9: Save writes the _id field at most once, and only after an
\* acknowledged INSERT; no step of Save changes a non-zero _id or the _id of
\* a persisted document.
C9_IdWrittenOnce ==
    /\ [](idWrites <= 1 /\ idWrites <= acked)
    /\ [][CoreStep =>
            ((fields["_id"] # ZeroObjectID \/ persisted)
                => fields'["_id"] = fields["_id"])]_vars

\* A Save of a document with a pre-assigned non-zero _id has returned after
\* its one write of the _id field.
C9_Witness ==
    \E t \in Threads :
        /\ pc[t] = "returned"
        /\ atCall[t].fields["_id"] # ZeroObjectID
        /\ idWrites = 1
        /\ fields["_id"] = atCall[t].fields["_id"]

\* C10: each Save issues at most one store operation; a Save that failed
\* at the store returns with the document unpersisted and its previous value
\* untouched, so that a further Save inserts again; and a Save that returns
\* from an acknowledged INSERT after such a failure leaves the document
\* persisted and unchanged, with one INSERT acknowledged in all.
C10_SafeRetry ==
    /\ \A t \in Threads : nOps[t] <= 1
    /\ \A t \in Threads :
          (InsertFailed(t) /\ Over(t)) =>
              /\ pc[t] = "returned"
              /\ ~persisted
              /\ previousValue = atCall[t].previousValue
    /\ \A t \in Threads :
          (failures > 0 /\ pc[t] = "returned" /\ op[t] = "INSERT"
                        /\ err[t] = "nil") =>
              /\ acked = 1
              /\ persisted
              /\ fields["_id"] = res[t]
              /\ ~IsChanged

\* C11: a document constructed with default values and never loaded has
\* IsPersisted() = false and IsChanged() = false, and its reads return so,
\* until a field is set or Save is called.
C11_NewDocumentUnchanged ==
    (~loaded /\ ~touched) =>
        /\ ~IsPersisted
        /\ ~IsChanged
        /\ lastRead.call \in {"IsPersisted", "IsChanged"} => ~lastRead.flag
        /\ lastRead.call = "Changes" => lastRead.diff = EmptyDoc

\* IsChanged() was read on a new document that nothing has touched.
C11_Witness ==
    /\ ~loaded /\ ~touched /\ crashed = "no"
    /\ lastRead.call = "IsChanged"

\* Setting path p to v sets it to a value other than the one the previous
\* value holds at p (a path the previous value lacks holds none).
SetsOtherValue(p, v) ==
    /\ v # Unset
    /\ p \in DOMAIN previousValue => previousValue[p] # v

\* Setting path p to v sets it back to what the previous value holds at p.
SetsBack(p, v) ==
    IF p \in DOMAIN previousValue THEN v = previousValue[p] ELSE v = Unset

\* C12 as stated: after p is set to a value different from its value in the
\* previous value, no other path differing, IsChanged() is true and
\* Changes() is exactly p -> the new value.
C12_MutationIsTheChange ==
    [][\A p \in Paths : \A v \in SlotValues(p) :
          (Mutate(p, v) /\ SetsOtherValue(p, v) /\ DOMAIN Changes \subseteq {p})
              => (IsChanged' /\ Changes' = (p :> v))]_vars

\* C12 as amended: the same, for a new value that also differs from nil
\* when the previous value lacks p (a missing path and an explicit nil are
\* the same to the diff).
C12_MutationIsTheChange_Amended ==
    [][\A p \in Paths : \A v \in SlotValues(p) :
          (Mutate(p, v) /\ SetsOtherValue(p, v) /\ BsonGet(previousValue, p) # v
                        /\ DOMAIN Changes \subseteq {p})
              => (IsChanged' /\ Changes' = (p :> v))]_vars

\* Path b alone has been set to another value than the previous value's.
C12_Witness ==
    /\ Quiet /\ crashed = "no" /\ touched
    /\ DOMAIN Changes = {"b"}
    /\ fields["b"] = MaxVal /\ Changes["b"] = MaxVal
    /\ BsonGet(previousValue, "b") # MaxVal

\* C13: setting a changed path p back to the value the previous value holds
\* removes p from Changes(); with no other path differing, IsChanged() is
\* false again.
C13_RevertRemovesChange ==
    [][\A p \in Paths : \A v \in SlotValues(p) :
          (Mutate(p, v) /\ p \in DOMAIN Changes /\ SetsBack(p, v))
              => /\ p \notin DOMAIN Changes'
                 /\ (DOMAIN Changes \subseteq {p}) => ~IsChanged']_vars

\* A new document whose fields were set and then set back: only field
\* settings have touched it and it is unchanged again.
C13_Witness ==
    /\ Quiet /\ crashed = "no"
    /\ ~loaded /\ touched /\ ~persisted
    /\ acked = 0 /\ failures = 0
    /\ ~IsChanged

\* A caller reads the document.
ReadCall == IsPersistedCall \/ IsChangedCall \/ ChangesCall

\* C14: IsPersisted(), IsChanged() and Changes() change nothing of the
\* document, and a Changes() call that follows another with no field set
\* and no Save between them returns the same diff.
C14_ReadsArePure ==
    /\ [][ReadCall => UNCHANGED <<fields, persisted, previousValue>>]_vars
    /\ [][(ChangesCall /\ lastRead.call = "Changes")
              => lastRead'.diff = lastRead.diff]_vars

\* Changes() was read on a document with a changed field.
C14_Witness ==
    /\ crashed = "no" /\ touched
    /\ lastRead.call = "Changes"
    /\ lastRead.diff # EmptyDoc
    /\ lastRead.diff = Changes

\* C15 as stated: a path the previous value has and the current encoding
\* lacks is in Changes() with nil; a path only the current encoding has is
\* in Changes() with its current value; a path with equal values on both
\* sides is not in Changes().
C15_DiffEntries ==
    LET cur == ToBson(fields)
        prev == previousValue
    IN  \A p \in Paths :
          /\ (p \in DOMAIN prev /\ p \notin DOMAIN cur)
                => (p \in DOMAIN Changes /\ Changes[p] = Null)
          /\ (p \notin DOMAIN prev /\ p \in DOMAIN cur)
                => (p \in DOMAIN Changes /\ Changes[p] = cur[p])
          /\ (p \in DOMAIN prev /\ p \in DOMAIN cur /\ prev[p] = cur[p])
                => p \notin DOMAIN Changes

\* C15 as amended: the same, for a path whose value on the side that has it
\* is not nil (a nil value and a missing path are the same to the diff: no
\* entry).
C15_DiffEntries_Amended ==
    LET cur == ToBson(fields)
        prev == previousValue
    IN  \A p \in Paths :
          /\ (p \in DOMAIN prev /\ p \notin DOMAIN cur /\ prev[p] # Null)
                => (p \in DOMAIN Changes /\ Changes[p] = Null)
          /\ (p \notin DOMAIN prev /\ p \in DOMAIN cur /\ cur[p] # Null)
                => (p \in DOMAIN Changes /\ Changes[p] = cur[p])
          /\ (p \in DOMAIN prev /\ p \in DOMAIN cur /\ prev[p] = cur[p])
                => p \notin DOMAIN Changes
          /\ (BsonGet(prev, p) = Null /\ BsonGet(cur, p) = Null)
                => p \notin DOMAIN Changes

\* Path a was removed and path b was added since the previous value, and
\* the _id is as it was.
C15_Witness ==
    /\ crashed = "no"
    /\ "a" \in DOMAIN previousValue /\ previousValue["a"] # Null
    /\ fields["a"] = Unset
    /\ "b" \notin DOMAIN previousValue
    /\ fields["b"] \notin {Unset, Null}
    /\ previousValue["_id"] = fields["_id"]

\* C16: no Save has finished (returned, or ended on a store error or on a
\* failed write-back) with the timeout context it acquired still held.
C16_ContextReleased ==
    \A t \in Threads : Over(t) => ~ctxHeld[t]

\* C17: from the call of Save to the store's reply nothing of the document
\* changes: fields, _id, persisted flag and previous value are as the call
\* found them (the zero _id is dropped from the outgoing document only).
C17_NoMutationBeforeReply ==
    \A t \in Threads :
        pc[t] \in {"saveByUpdate", "saveByInsert", "InsertOne", "InsertOne_err"}
            => Snapshot = atCall[t]

\* The store has replied to the INSERT of a document with a zero _id: the
\* outgoing document has no _id, the document's own _id is still there.
C17_Witness ==
    \E t \in Threads :
        /\ pc[t] = "InsertOne_err" /\ op[t] = "INSERT" /\ err[t] = "nil"
        /\ "_id" \notin DOMAIN insertBson[t]
        /\ fields["_id"] = ZeroObjectID
        /\ "_id" \in DOMAIN ToBson(fields)

\* C18: persisted is true only for a document loaded from the store or
\* after the store acknowledged an INSERT of it, and no step sets it back
\* to false.
C18_PersistedOnlyAfterAck ==
    /\ [](persisted => (loaded \/ acked > 0))
    /\ [][persisted => persisted']_vars

\* A document that was not loaded is persisted after its acknowledged INSERT.
C18_Witness ==
    /\ persisted /\ ~loaded /\ acked = 1
    /\ \E t \in Threads : pc[t] = "returned" /\ op[t] = "INSERT"

\* C19: with unserialized callers every thread that read persisted = false
\* issues its own INSERT, and each write-back puts that thread's identity
\* into the _id field, whatever it held.
C19_ConcurrentSavesBothInsert ==
    /\ [](\A t \in Threads :
            (InCall(t) /\ ~atCall[t].persisted /\ pc[t] = "InsertOne_err")
                => op[t] = "INSERT")
    /\ [][\A t \in Threads :
            saveByInsert_SetId(t) => fields'["_id"] = res[t]]_vars

\* Two Save calls on one document with a zero _id both read
\* persisted = false, both had their INSERT acknowledged, with two
\* identities, and both returned; the document holds one of the two.
C19_Witness ==
    /\ \A t \in Threads :
          /\ pc[t] = "returned"
          /\ ~atCall[t].persisted
          /\ atCall[t].fields["_id"] = ZeroObjectID
          /\ op[t] = "INSERT" /\ err[t] = "nil"
    /\ res[1] # res[2]
    /\ acked = 2
    /\ fields["_id"] \in {res[1], res[2]}

\* A persisted document has a non-zero _id.
PersistedHasId == persisted => fields["_id"] # ZeroObjectID

\* C20: the store handing out non-zero identities only, every step of Save
\* keeps: persisted = true implies a non-zero _id; it holds of the document
\* Save first finds, and of every state inside an insert.
C20_PersistedHasId ==
    /\ PersistedHasId
    /\ [][CoreStep => (PersistedHasId => PersistedHasId')]_vars
    /\ [](\A t \in Threads :
            (InCall(t) /\ ~atCall[t].persisted /\ persisted)
                => fields["_id"] # ZeroObjectID)

\* Inside an insert of a document with a zero _id, persisted is set and the
\* _id holds the store's identity.
C20_Witness ==
    \E t \in Threads :
        /\ pc[t] = "refresh"
        /\ atCall[t].fields["_id"] = ZeroObjectID
        /\ persisted
        /\ fields["_id"] = res[t] /\ res[t] # ZeroObjectID

====
